---- MODULE Spec2Model ----
(***************************************************************************)
(* Path interning (src/path.rs) and document tree load/persist             *)
(* (src/main.rs) of the sqlite-test document model.                        *)
(*                                                                         *)
(* Strings are sequences of byte codes, compared bytewise as Rust's str    *)
(* is.  A Path Node is named by its allocation address: 0 is the static    *)
(* ROOT_PATH_NODE, i >= 1 is the i-th PathNode allocated on the heap.      *)
(* A ModelPath handle is the address of the node it points to, so handle   *)
(* equality is address equality (PartialEq for ModelPath).                 *)
(***************************************************************************)
EXTENDS Integers, Sequences, FiniteSets, TLC

VARIABLES
    PATH_NODE_TABLE,  \* DashMap<PathKey, Arc<PathNode>>: <<parent addr, part>> -> addr
    pathNodes,        \* the heap of Part nodes: pathNodes[i] = [parent, name]
    threads,          \* interner client threads: position in join / parse
    handedOut,        \* history: <<key, node>> for every handle a join has returned
    named_objects,    \* the table named_objects: row id i is named_objects[i]
    document,         \* the Document held by the caller, or NoDocument
    pc,               \* "running", or "aborted" after a panic
    lastCall          \* the last document operation and what it returned

vars == <<PATH_NODE_TABLE, pathNodes, threads, handedOut,
          named_objects, document, pc, lastCall>>

docVars == <<named_objects, document, pc, lastCall>>

-----------------------------------------------------------------------------
(* Bounds of the model *)

\* Most Part nodes the concurrent interner specification allocates.
MaxPathNodes == 3

\* Most rows of named_objects at which create_node is still called.
MaxRows == 4

\* Most iterations of the loop of is_prefix the model follows.
MaxIters == 3

\* The threads of the concurrent interner specification.
Threads == {"t1", "t2"}

-----------------------------------------------------------------------------
(* Strings *)

\* The byte '/'.  The segments are "a" and "b"; '-' (45) sorts below '/'.
Slash == 47

EmptyStr == <<>>
SegA == <<97>>
SegB == <<98>>

\* Segments handed to join directly.
Segments == {SegA, SegB}

\* "/a", "/b", "/a/b", and "/a-", which sorts between "/a" and "/a/b"
PathA == <<Slash>> \o SegA
PathB == <<Slash>> \o SegB
PathAB == PathA \o <<Slash>> \o SegB
PathADash == PathA \o <<45>>

\* Strings the interner's client threads parse.
ParseInputs == {EmptyStr, SegA, PathA, PathAB, PathB}

\* Option::None of a split, and of a handle.
NoSplit == <<>>
NoPath == -1

\* str::cmp, a < b: bytewise lexicographic order.
RECURSIVE StrLess(_, _)
StrLess(a, b) ==
    IF a = <<>> THEN b # <<>>
    ELSE IF b = <<>> THEN FALSE
    ELSE IF Head(a) # Head(b) THEN Head(a) < Head(b)
    ELSE StrLess(Tail(a), Tail(b))

\* A split around the first '/' instead of the last.
split_once(s) ==
    LET idx == {i \in 1..Len(s) : s[i] = Slash}
    IN  IF idx = {} THEN NoSplit
        ELSE LET first == CHOOSE i \in idx : \A j \in idx : i <= j
             IN  <<SubSeq(s, 1, first - 1), SubSeq(s, first + 1, Len(s))>>

\* str::rsplit_once('/'): None, or <<prefix, name>> around the last '/'.
rsplit_once(s) ==
    LET idx == {i \in 1..Len(s) : s[i] = Slash}
    IN  IF idx = {} THEN NoSplit
        ELSE LET last == CHOOSE i \in idx : \A j \in idx : j <= i
             IN  <<SubSeq(s, 1, last - 1), SubSeq(s, last + 1, Len(s))>>

-----------------------------------------------------------------------------
(* Path nodes and the interner: src/path.rs *)

ROOT_PATH_NODE == 0

\* ModelPath::root
root == ROOT_PATH_NODE

\* ModelPath::is_root: pointer comparison with the static root.
is_root(h) == h = ROOT_PATH_NODE

\* PathKey { parent: pointer, part }
PathKey(h, part) == <<h, part>>

\* ModelPath::parent
parent(heap, h) == IF h = ROOT_PATH_NODE THEN NoPath ELSE heap[h].parent

\* ModelPath::name: Atom::default() for the root.
name(heap, h) == IF h = ROOT_PATH_NODE THEN EmptyStr ELSE heap[h].name

\* ModelPath::split_last
split_last(heap, h) ==
    IF h = ROOT_PATH_NODE THEN NoSplit ELSE <<heap[h].parent, heap[h].name>>

\* A string form that leaves the "/" out.
RECURSIVE PathNode_to_string_noslash(_, _)
PathNode_to_string_noslash(heap, h) ==
    IF h = ROOT_PATH_NODE THEN EmptyStr
    ELSE PathNode_to_string_noslash(heap, heap[h].parent) \o heap[h].name

\* PathNode::to_string: "" for Root, parent + "/" + name for a Part.
RECURSIVE PathNode_to_string(_, _)
PathNode_to_string(heap, h) ==
    IF h = ROOT_PATH_NODE THEN EmptyStr
    ELSE PathNode_to_string(heap, heap[h].parent) \o <<Slash>> \o heap[h].name

\* ModelPath::to_string: "/" for Root, the node's string otherwise.
to_string(heap, h) ==
    IF h = ROOT_PATH_NODE THEN <<Slash>> ELSE PathNode_to_string(heap, h)

\* A table that replaces the entry of a key it already holds.
insert_always(table, key, new) ==
    [k \in DOMAIN table \cup {key} |-> IF k = key THEN new ELSE table[k]]

\* DashMap::entry(key).or_insert_with(..): the table afterwards.  The entry
\* holds the shard's write lock, so fetch-or-insert is one atomic step.
or_insert_with(table, key, new) ==
    IF key \in DOMAIN table THEN table
    ELSE [k \in DOMAIN table \cup {key} |-> IF k = key THEN new ELSE table[k]]

\* The interner: the table and the heap of the nodes it allocated.
Interner(table, heap) == [table |-> table, heap |-> heap]

EmptyTable == [k \in {} |-> 0]

\* A join whose new node takes the root for its parent.
join_root_parent(I, h, part) ==
    LET key == PathKey(h, part)
        new == Len(I.heap) + 1
        table == or_insert_with(I.table, key, new)
        heap == IF table[key] = new
                THEN Append(I.heap, [parent |-> root, name |-> part])
                ELSE I.heap
    IN  [I |-> Interner(table, heap), node |-> table[key]]

\* A join whose new node is its own parent.
join_self_parent(I, h, part) ==
    LET key == PathKey(h, part)
        new == Len(I.heap) + 1
        table == or_insert_with(I.table, key, new)
        heap == IF table[key] = new
                THEN Append(I.heap, [parent |-> new, name |-> part])
                ELSE I.heap
    IN  [I |-> Interner(table, heap), node |-> table[key]]

\* ModelPath::join: the interner afterwards and the handle returned.  The
\* closure allocates a node only when the entry was vacant.
join(I, h, part) ==
    LET key == PathKey(h, part)
        new == Len(I.heap) + 1
        table == or_insert_with(I.table, key, new)
        heap == IF table[key] = new
                THEN Append(I.heap, [parent |-> h, name |-> part])
                ELSE I.heap
    IN  [I |-> Interner(table, heap), node |-> table[key]]

\* ModelPath::parse: root when there is no '/', else parse(prefix).join(name).
RECURSIVE parse(_, _)
parse(I, path) ==
    LET sp == rsplit_once(path)
    IN  IF sp = NoSplit THEN [I |-> I, node |-> root]
        ELSE LET p == parse(I, sp[1])
             IN  join(p.I, p.node, sp[2])

-----------------------------------------------------------------------------
(* Concurrent clients of the interner.  A thread is idle, or inside a call  *)
(* of parse (descending on rsplit_once, its pending names on the stack) or  *)
(* of join; each DashMap entry operation is one atomic step.                *)

NoKey == <<>>
\* No string: the call is not a parse.
NoInput == <<-1>>
\* input: the string parse was called with; self, iters, ret: the receiver of
\* is_prefix, the iterations of its loop so far, and the value returned.
IdleThread ==
    [pc |-> "idle", arg |-> EmptyStr, stack |-> <<>>, cur |-> root, key |-> NoKey,
     input |-> NoInput, self |-> root, iters |-> 0, ret |-> FALSE]

\* A thread calls h.join(part) on a handle some join has returned, or on root.
CallJoin(t, h, part) ==
    /\ threads[t].pc = "idle"
    /\ threads' = [threads EXCEPT ![t] =
                     [IdleThread EXCEPT !.pc = "join", !.stack = <<part>>, !.cur = h]]
    /\ UNCHANGED <<PATH_NODE_TABLE, pathNodes, handedOut>>
    /\ UNCHANGED docVars

\* A thread calls ModelPath::parse(path).
CallParse(t, path) ==
    /\ threads[t].pc = "idle"
    /\ threads' = [threads EXCEPT ![t] =
                     [IdleThread EXCEPT !.pc = "parse", !.arg = path, !.input = path]]
    /\ UNCHANGED <<PATH_NODE_TABLE, pathNodes, handedOut>>
    /\ UNCHANGED docVars

\* parse: one level of the recursion.  With no '/' left the innermost call
\* returns root; otherwise the name waits for parse(prefix) to return.
ParseDescend(t) ==
    /\ threads[t].pc = "parse"
    /\ LET sp == rsplit_once(threads[t].arg)
       IN  threads' = [threads EXCEPT ![t] =
                IF sp = NoSplit
                THEN [@ EXCEPT !.pc = "join", !.arg = EmptyStr, !.cur = root]
                ELSE [@ EXCEPT !.arg = sp[1], !.stack = <<sp[2]>> \o @]]
    /\ UNCHANGED <<PATH_NODE_TABLE, pathNodes, handedOut>>
    /\ UNCHANGED docVars

\* join: the entry operation on PATH_NODE_TABLE, atomically.
JoinEntry(t) ==
    /\ threads[t].pc = "join"
    /\ threads[t].stack # <<>>
    /\ LET part == Head(threads[t].stack)
           key == PathKey(threads[t].cur, part)
           r == join(Interner(PATH_NODE_TABLE, pathNodes), threads[t].cur, part)
       IN  /\ Len(r.I.heap) <= MaxPathNodes
           /\ PATH_NODE_TABLE' = r.I.table
           /\ pathNodes' = r.I.heap
           /\ threads' = [threads EXCEPT ![t] =
                            [@ EXCEPT !.cur = r.node, !.stack = Tail(@), !.key = key]]
           /\ handedOut' = handedOut \cup {<<key, r.node>>}
    /\ UNCHANGED docVars

\* A thread calls self.is_prefix(other): p = Some(other).
CallIsPrefix(t, self, other) ==
    /\ threads[t].pc = "idle"
    /\ threads' = [threads EXCEPT ![t] =
                     [IdleThread EXCEPT !.pc = "is_prefix", !.self = self,
                                        !.cur = other]]
    /\ UNCHANGED <<PATH_NODE_TABLE, pathNodes, handedOut>>
    /\ UNCHANGED docVars

\* is_prefix: one iteration of `while let Some(p) = p`.  The pattern binds a
\* new p, the outer p stays Some(other): the test never fails, so `false` is
\* never returned, and an iteration that does not return changes nothing.
IsPrefixLoop(t) ==
    /\ threads[t].pc = "is_prefix"
    /\ IF threads[t].cur = threads[t].self
       THEN threads' = [threads EXCEPT ![t] =
                          [@ EXCEPT !.pc = "returned", !.ret = TRUE]]
       ELSE /\ threads[t].iters < MaxIters
            /\ threads' = [threads EXCEPT ![t] = [@ EXCEPT !.iters = @ + 1]]
    /\ UNCHANGED <<PATH_NODE_TABLE, pathNodes, handedOut>>
    /\ UNCHANGED docVars

\* The thread is at the return of parse or join, its handle in cur.
AtReturn(t) == threads[t].pc = "join" /\ threads[t].stack = <<>>

\* The call returns to the caller.
Return(t) ==
    /\ AtReturn(t) \/ threads[t].pc = "returned"
    /\ threads' = [threads EXCEPT ![t] = IdleThread]
    /\ UNCHANGED <<PATH_NODE_TABLE, pathNodes, handedOut>>
    /\ UNCHANGED docVars

-----------------------------------------------------------------------------
(* The backing store: src/main.rs, the statements run on the connection.   *)
(* named_objects[i] is the row with rowid i: [name, path].  The column     *)
(* parent is null in every row and is left out.  Rows are never deleted,   *)
(* so an insert gets rowid Len + 1.                                        *)

DbOk == [ok |-> TRUE]
\* A rusqlite error, as anyhow carries it to the caller: a store error,
\* whatever its cause ("constraint": a UNIQUE violation; "io": any other).
DbErr(cause) == [ok |-> FALSE, kind |-> "StoreError", cause |-> cause]

RootRow == [name |-> EmptyStr, path |-> EmptyStr]

HasPath(rows, path) == \E i \in 1..Len(rows) : rows[i].path = path

\* "insert or ignore into named_objects (name, path, parent) values ('','',null)"
insert_or_ignore_root(rows) ==
    IF HasPath(rows, RootRow.path) THEN rows ELSE Append(rows, RootRow)

\* setup_schema: both tables are created if absent, then the root row is
\* inserted unless a row with path '' is there (path is UNIQUE).
setup_schema(rows) == insert_or_ignore_root(rows)

\* "update named_objects set name=?1, path=?2 where rowid=?3".  failId is the
\* row whose update the store fails (0: none).
db_update(rows, id, nm, path, failId) ==
    IF id = failId THEN [rows |-> rows, res |-> DbErr("io")]
    ELSE IF id \notin 1..Len(rows) THEN [rows |-> rows, res |-> DbOk]
    ELSE IF \E j \in 1..Len(rows) : j # id /\ rows[j].path = path
         THEN [rows |-> rows, res |-> DbErr("constraint")]
    ELSE [rows |-> [rows EXCEPT ![id] = [name |-> nm, path |-> path]],
          res |-> DbOk]

\* "insert into named_objects (name, path, parent) values (?1,?2,null)"
db_insert(rows, nm, path, ioFail) ==
    IF ioFail THEN [rows |-> rows, res |-> DbErr("io")]
    ELSE IF HasPath(rows, path) THEN [rows |-> rows, res |-> DbErr("constraint")]
    ELSE [rows |-> Append(rows, [name |-> nm, path |-> path]), res |-> DbOk]

\* The orders "select rowid, path from named_objects" can return the rows in:
\* by rowid (a table scan) or by path (a scan of the UNIQUE index on path).
ScanOrders == {"rowid", "path"}

RECURSIVE ByPath(_, _)
ByPath(rows, ids) ==
    IF ids = {} THEN <<>>
    ELSE LET m == CHOOSE i \in ids :
                    \A j \in ids : j = i \/ StrLess(rows[i].path, rows[j].path)
         IN  <<m>> \o ByPath(rows, ids \ {m})

db_select(rows, scan) ==
    IF scan = "rowid" THEN [i \in 1..Len(rows) |-> i]
    ELSE ByPath(rows, 1..Len(rows))

-----------------------------------------------------------------------------
(* Nodes and the document: src/main.rs *)

NoDocument == [none |-> TRUE]
NoNode == [none |-> TRUE]
IsNone(x) == "none" \in DOMAIN x
\* Some(&mut Node): the place of the node, the child keys from the root down.
SomeMut(loc) == [loc |-> loc]

EmptyChildren == [k \in {} |-> NoNode]

\* NamedObject { id, path }
NamedObject(id, path) == [id |-> id, path |-> path]

\* Node { base, children }
Node(base, children) == [base |-> base, children |-> children]

\* HashTrieMap::insert_mut
insert_mut(children, key, node) ==
    [k \in DOMAIN children \cup {key} |-> IF k = key THEN node ELSE children[k]]

\* Node::find_child
find_child(node, nm) ==
    IF nm \in DOMAIN node.children THEN node.children[nm] ELSE NoNode

\* Node::add_child: keyed by the name of the child's path.
add_child(heap, node, child) ==
    [node EXCEPT !.children = insert_mut(@, name(heap, child.base.path), child)]

\* A lookup that falls back on the document root when the parent is missing.
RECURSIVE find_node_or_root(_, _, _)
find_node_or_root(doc, heap, path) ==
    LET sp == split_last(heap, path)
    IN  IF sp = NoSplit THEN doc.root
        ELSE LET par == find_node_or_root(doc, heap, sp[1])
             IN  IF IsNone(par) THEN doc.root ELSE find_child(par, sp[2])

\* Document::find_node
RECURSIVE find_node(_, _, _)
find_node(doc, heap, path) ==
    LET sp == split_last(heap, path)
    IN  IF sp = NoSplit THEN doc.root
        ELSE LET par == find_node(doc, heap, sp[1])
             IN  IF IsNone(par) THEN NoNode ELSE find_child(par, sp[2])

\* The node at a place of the tree.
RECURSIVE NodeAt(_, _)
NodeAt(node, loc) ==
    IF loc = <<>> THEN node ELSE NodeAt(node.children[Head(loc)], Tail(loc))

\* A reference that always points at the document root.
find_node_mut_root(doc, heap, path) == SomeMut(<<>>)

\* Document::find_node_mut: the place of the node, or None.
RECURSIVE find_node_mut(_, _, _)
find_node_mut(doc, heap, path) ==
    LET sp == split_last(heap, path)
    IN  IF sp = NoSplit THEN SomeMut(<<>>)
        ELSE LET par == find_node_mut(doc, heap, sp[1])
             IN  IF IsNone(par) THEN NoNode
                 ELSE IF sp[2] \in DOMAIN NodeAt(doc.root, par.loc).children
                      THEN SomeMut(Append(par.loc, sp[2]))
                      ELSE NoNode

\* parent.add_child(n) through the mutable reference at loc.
RECURSIVE AddChildAt(_, _, _, _)
AddChildAt(heap, node, loc, child) ==
    IF loc = <<>> THEN add_child(heap, node, child)
    ELSE [node EXCEPT !.children[Head(loc)] =
                         AddChildAt(heap, @, Tail(loc), child)]

\* The document open starts from: a root of id 0 without children.
NewDocument ==
    [root |-> Node(NamedObject(0, root), EmptyChildren), share_groups |-> <<>>]

\* Document::open, the row loop: each row's path is parsed (interning it) and
\* pushed with its string form.
RECURSIVE LoadRows(_, _, _)
LoadRows(I, rows, order) ==
    IF order = <<>> THEN [I |-> I, nodes |-> <<>>]
    ELSE LET id == Head(order)
             p == parse(I, rows[id].path)
             rest == LoadRows(p.I, rows, Tail(order))
             n == Node(NamedObject(id, p.node), EmptyChildren)
         IN  [I |-> rest.I,
              nodes |-> <<[key |-> to_string(p.I.heap, p.node), node |-> n]>>
                        \o rest.nodes]

\* A sort that orders the keys backwards.
RECURSIVE sort_by_reversed(_)
sort_by_reversed(nodes) ==
    IF nodes = <<>> THEN <<>>
    ELSE LET x == nodes[Len(nodes)]
             front == sort_by_reversed(SubSeq(nodes, 1, Len(nodes) - 1))
             le == {i \in 1..Len(front) : ~ StrLess(front[i].key, x.key)}
             k == Cardinality(le)
         IN  SubSeq(front, 1, k) \o <<x>> \o SubSeq(front, k + 1, Len(front))

\* nodes.sort_by(|(a, _), (b, _)| a.cmp(b)): a stable sort by the string form.
RECURSIVE sort_by(_)
sort_by(nodes) ==
    IF nodes = <<>> THEN <<>>
    ELSE LET x == nodes[Len(nodes)]
             front == sort_by(SubSeq(nodes, 1, Len(nodes) - 1))
             le == {i \in 1..Len(front) : ~ StrLess(x.key, front[i].key)}
             k == Cardinality(le)
         IN  SubSeq(front, 1, k) \o <<x>> \o SubSeq(front, k + 1, Len(front))

\* Document::open, the fold: the root row replaces document.root, any other
\* node is added to the node found for its parent path; unwrap panics when
\* there is none.
RECURSIVE FoldNodes(_, _, _)
FoldNodes(heap, doc, nodes) ==
    IF nodes = <<>> THEN [panic |-> FALSE, document |-> doc]
    ELSE LET n == Head(nodes).node
         IN  IF is_root(n.base.path)
             THEN FoldNodes(heap, [doc EXCEPT !.root = n], Tail(nodes))
             ELSE LET par == find_node_mut(doc, heap, parent(heap, n.base.path))
                  IN  IF IsNone(par) THEN [panic |-> TRUE, document |-> doc]
                      ELSE FoldNodes(heap,
                               [doc EXCEPT !.root = AddChildAt(heap, @, par.loc, n)],
                               Tail(nodes))

\* Document::open
open(I, rows, scan) ==
    LET rows1 == setup_schema(rows)
        loaded == LoadRows(I, rows1, db_select(rows1, scan))
        folded == FoldNodes(loaded.I.heap, NewDocument, sort_by(loaded.nodes))
    IN  [rows |-> rows1, I |-> loaded.I,
         result |-> IF folded.panic THEN "Panic" ELSE "Ok",
         document |-> folded.document]

\* NamedObject::write
NamedObject_write(heap, rows, base, failId) ==
    db_update(rows, base.id, name(heap, base.path), to_string(heap, base.path), failId)

\* The order a children map is iterated in.  HashTrieMap iterates in hash
\* order; the keys are taken in string order here.
RECURSIVE IterOrder(_)
IterOrder(keys) ==
    IF keys = {} THEN <<>>
    ELSE LET m == CHOOSE k \in keys : \A j \in keys : j = k \/ StrLess(k, j)
         IN  <<m>> \o IterOrder(keys \ {m})

\* Node::write: the node's row, with `?`; then every child, its result dropped.
\* st = [rows, log]: the table and the updates executed so far.
RECURSIVE Node_write(_, _, _, _)
RECURSIVE WriteChildren(_, _, _, _, _)
Node_write(heap, st, node, failId) ==
    LET u == NamedObject_write(heap, st.rows, node.base, failId)
        st1 == [rows |-> u.rows,
                log |-> Append(st.log, [id |-> node.base.id, ok |-> u.res.ok])]
    IN  IF ~ u.res.ok THEN [st |-> st1, res |-> u.res]
        ELSE [st |-> WriteChildren(heap, st1, node, IterOrder(DOMAIN node.children),
                                   failId),
              res |-> DbOk]

WriteChildren(heap, st, node, keys, failId) ==
    IF keys = <<>> THEN st
    ELSE WriteChildren(heap,
                       Node_write(heap, st, node.children[Head(keys)], failId).st,
                       node, Tail(keys), failId)

\* Document::write
Document_write(heap, rows, doc, failId) ==
    Node_write(heap, [rows |-> rows, log |-> <<>>], doc.root, failId)

\* Document::create_node: the row is inserted, the Node returned; the
\* document is not touched.
create_node(heap, rows, doc, path, ioFail) ==
    LET ins == db_insert(rows, name(heap, path), to_string(heap, path), ioFail)
    IN  IF ~ ins.res.ok THEN [rows |-> ins.rows, res |-> ins.res, document |-> doc]
        ELSE [rows |-> ins.rows, res |-> DbOk, document |-> doc,
              node |-> Node(NamedObject(Len(ins.rows), path), EmptyChildren)]

-----------------------------------------------------------------------------
(* The caller of the document operations (main): one thread, one            *)
(* connection, one Document.                                                *)

\* Path strings the caller parses and hands to create_node.
CreateInputs == {EmptyStr, PathA, PathADash, PathAB}

NoCall == [op |-> "none"]

\* let doc = Document::open(&connection)
Open(scan) ==
    /\ pc = "running"
    /\ LET o == open(Interner(PATH_NODE_TABLE, pathNodes), named_objects, scan)
       IN  /\ named_objects' = o.rows
           /\ PATH_NODE_TABLE' = o.I.table
           /\ pathNodes' = o.I.heap
           /\ IF o.result = "Ok"
              THEN /\ document' = o.document
                   /\ pc' = "running"
              ELSE /\ document' = NoDocument
                   /\ pc' = "aborted"
           /\ lastCall' = [op |-> "open", result |-> o.result]
    /\ UNCHANGED <<threads, handedOut>>

\* doc.create_node(&connection, ModelPath::parse(input))
CreateNode(input, ioFail) ==
    /\ pc = "running"
    /\ ~ IsNone(document)
    /\ Len(named_objects) < MaxRows
    /\ LET p == parse(Interner(PATH_NODE_TABLE, pathNodes), input)
           c == create_node(p.I.heap, named_objects, document, p.node, ioFail)
       IN  /\ PATH_NODE_TABLE' = p.I.table
           /\ pathNodes' = p.I.heap
           /\ named_objects' = c.rows
           /\ document' = c.document
           /\ lastCall' = IF c.res.ok
                          THEN [op |-> "create_node", path |-> p.node, result |-> "Ok",
                                node |-> c.node]
                          ELSE [op |-> "create_node", path |-> p.node, result |-> "Err",
                                err |-> c.res]
    /\ UNCHANGED <<pc, threads, handedOut>>

\* doc.write(&connection)
Write(failId) ==
    /\ pc = "running"
    /\ ~ IsNone(document)
    /\ LET w == Document_write(pathNodes, named_objects, document, failId)
       IN  /\ named_objects' = w.st.rows
           /\ lastCall' = IF w.res.ok
                          THEN [op |-> "write", result |-> "Ok", log |-> w.st.log]
                          ELSE [op |-> "write", result |-> "Err", log |-> w.st.log,
                                err |-> w.res]
    /\ UNCHANGED <<PATH_NODE_TABLE, pathNodes, document, pc, threads, handedOut>>

\* doc.find_node(&path), on a handle the interner has allocated or the root.
\* The document is borrowed shared: nothing changes but the call's record.
FindNode(path) ==
    /\ pc = "running"
    /\ ~ IsNone(document)
    /\ lastCall' = [op |-> "find_node", path |-> path,
                    result |-> find_node(document, pathNodes, path)]
    /\ UNCHANGED <<PATH_NODE_TABLE, pathNodes, named_objects, document, pc,
                   threads, handedOut>>

\* The process ends (it returned, or a panic aborted it) and main runs again
\* on the same database file: the interner and the document start afresh.
Restart ==
    /\ PATH_NODE_TABLE' = EmptyTable
    /\ pathNodes' = <<>>
    /\ document' = NoDocument
    /\ pc' = "running"
    /\ lastCall' = NoCall
    /\ UNCHANGED <<named_objects, threads, handedOut>>

Init ==
    /\ PATH_NODE_TABLE = EmptyTable
    /\ pathNodes = <<>>
    /\ threads = [t \in Threads |-> IdleThread]
    /\ handedOut = {}
    /\ named_objects = <<>>
    /\ document = NoDocument
    /\ pc = "running"
    /\ lastCall = NoCall

NextIntern ==
    \/ \E t \in Threads, h \in 0..Len(pathNodes), part \in Segments : CallJoin(t, h, part)
    \/ \E t \in Threads, path \in ParseInputs : CallParse(t, path)
    \/ \E t \in Threads : ParseDescend(t)
    \/ \E t \in Threads : JoinEntry(t)
    \/ \E t \in Threads : Return(t)

SpecIntern == Init /\ [][NextIntern]_vars

\* One thread using the path operations, parse also on the string forms of
\* the handles it holds and join also on a segment that contains '/'.
MainThread == "t1"
SegAB == SegA \o <<Slash>> \o SegB

NextPath ==
    \/ \E h \in 0..Len(pathNodes), part \in Segments \cup {SegAB} :
          CallJoin(MainThread, h, part)
    \/ \E path \in ParseInputs \cup {to_string(pathNodes, h) : h \in 0..Len(pathNodes)} :
          CallParse(MainThread, path)
    \/ ParseDescend(MainThread)
    \/ JoinEntry(MainThread)
    \/ \E self \in 0..Len(pathNodes), other \in 0..Len(pathNodes) :
          CallIsPrefix(MainThread, self, other)
    \/ IsPrefixLoop(MainThread)
    \/ Return(MainThread)

SpecPath == Init /\ [][NextPath]_vars


Next ==
    \/ \E scan \in ScanOrders : Open(scan)
    \/ \E input \in CreateInputs, ioFail \in BOOLEAN : CreateNode(input, ioFail)
    \/ \E failId \in 0..MaxRows : Write(failId)
    \/ \E path \in 0..Len(pathNodes) : FindNode(path)
    \/ Restart

Spec == Init /\ [][Next]_vars

-----------------------------------------------------------------------------
(* C1: interning uniqueness.  Whatever the interleaving of the threads'     *)
(* join and parse calls, every join that resolved a given (parent address,  *)
(* segment) key returned the node the table holds for that key, so all of   *)
(* them returned the same node, and no two allocated Path Nodes have the    *)
(* same parent and name.                                                    *)
InterningUniqueness ==
    /\ \A x \in handedOut, y \in handedOut : x[1] = y[1] => x[2] = y[2]
    /\ \A x \in handedOut :
          x[1] \in DOMAIN PATH_NODE_TABLE /\ PATH_NODE_TABLE[x[1]] = x[2]
    /\ \A t \in Threads :
          threads[t].key # NoKey => PATH_NODE_TABLE[threads[t].key] = threads[t].cur
    /\ \A i \in 1..Len(pathNodes), j \in 1..Len(pathNodes) :
          pathNodes[i] = pathNodes[j] => i = j

\* Two different threads hold the handle their joins returned for the same
\* key of a second-level node.
InterningUniquenessWitness ==
    \E t \in Threads, u \in Threads :
        /\ t # u
        /\ threads[t].key # NoKey
        /\ threads[t].key = threads[u].key
        /\ threads[t].key[1] # ROOT_PATH_NODE
        /\ threads[t].cur = threads[u].cur

-----------------------------------------------------------------------------
(* Helpers of the document claims *)

ThisInterner == Interner(PATH_NODE_TABLE, pathNodes)

\* Every node of a subtree.
RECURSIVE TreeNodes(_)
TreeNodes(node) ==
    {node} \cup UNION {TreeNodes(node.children[k]) : k \in DOMAIN node.children}

\* The (path, id) pairs of a document.
Pairs(doc) == {<<n.base.path, n.base.id>> : n \in TreeNodes(doc.root)}

\* A path string "/s1/.../sn" (n >= 1) with non-empty segments.
WellFormed(path) ==
    /\ path # <<>>
    /\ path[1] = Slash
    /\ path[Len(path)] # Slash
    /\ \A i \in 1..(Len(path) - 1) : ~ (path[i] = Slash /\ path[i + 1] = Slash)

\* A store as create_node calls, parent before child and with well-formed
\* paths, leave it after the first open of an empty store: the root row, then
\* rows whose parent is the root or an earlier row.
CleanStore(rows) ==
    /\ Len(rows) >= 1
    /\ rows[1] = RootRow
    /\ \A i \in 2..Len(rows) :
          /\ WellFormed(rows[i].path)
          /\ LET sp == rsplit_once(rows[i].path)
             IN  /\ rows[i].name = sp[2]
                 /\ \/ sp[1] = EmptyStr
                    \/ \E j \in 2..(i - 1) : rows[j].path = sp[1]

\* A row whose parent path is the path of no row.
OrphanRow(rows) ==
    \E i \in 1..Len(rows) :
        LET sp == rsplit_once(rows[i].path)
        IN  /\ sp # NoSplit
            /\ sp[1] # EmptyStr
            /\ ~ HasPath(rows, sp[1])

\* create_node's path has a parent, and the document has no node for it.
ParentAbsent(input) ==
    LET p == parse(ThisInterner, input)
    IN  /\ ~ is_root(p.node)
        /\ IsNone(find_node(document, p.I.heap, parent(p.I.heap, p.node)))

\* The string create_node stores for an input.
StoredPath(input) ==
    LET p == parse(ThisInterner, input) IN to_string(p.I.heap, p.node)

-----------------------------------------------------------------------------
(* C2: load/store idempotence.  From a store reached by open and            *)
(* create_node calls, d = open(store); write(d, store); d2 = open(store)    *)
(* gives a d2 with the (path, id) pairs of d, the root's included.          *)
LoadStoreIdempotence ==
    lastCall.op \in {"open", "create_node"} =>
        \A s1 \in ScanOrders, s2 \in ScanOrders :
            LET d == open(ThisInterner, named_objects, s1)
                w == Document_write(d.I.heap, d.rows, d.document, 0)
                d2 == open(d.I, w.st.rows, s2)
            IN  d.result = "Ok" =>
                    /\ w.res.ok
                    /\ d2.result = "Ok"
                    /\ Pairs(d2.document) = Pairs(d.document)

(* C3: parent/child consistency.  In the document open produced, and after  *)
(* every later operation, each entry (S, C) of the children map of a node N *)
(* has C.base.path identical to N.base.path.join(S).                        *)
ParentChildConsistency ==
    ~ IsNone(document) =>
        \A N \in TreeNodes(document.root) : \A S \in DOMAIN N.children :
            N.children[S].base.path = join(ThisInterner, N.base.path, S).node

\* A document with a node two levels below the root.
ParentChildConsistencyWitness ==
    /\ ~ IsNone(document)
    /\ \E N \in TreeNodes(document.root) :
          /\ ~ is_root(N.base.path)
          /\ DOMAIN N.children # {}

(* C4: tree reconstruction.  After create_node calls with well-formed paths, *)
(* parent before child, on a freshly opened empty store, open succeeds; the *)
(* tree's nodes are the root and the created paths, each with its row id,   *)
(* and C is a child of N exactly when C's path is N's path joined with C's  *)
(* segment, under that segment as key.                                      *)
TreeReconstruction ==
    (lastCall.op = "open" /\ CleanStore(named_objects)) =>
        /\ lastCall.result = "Ok"
        /\ ~ IsNone(document)
        /\ LET nodes == TreeNodes(document.root)
           IN  /\ Pairs(document) =
                     {<<parse(ThisInterner, named_objects[i].path).node, i>> :
                          i \in 1..Len(named_objects)}
               /\ \A N \in nodes, C \in nodes :
                     (\E S \in DOMAIN N.children : N.children[S] = C)
                         <=> (/\ ~ is_root(C.base.path)
                              /\ parent(pathNodes, C.base.path) = N.base.path)
               /\ \A N \in nodes : \A S \in DOMAIN N.children :
                     name(pathNodes, N.children[S].base.path) = S

\* The reopened store holds the root, /a, /a- and /a/b.
TreeReconstructionWitness ==
    /\ lastCall.op = "open"
    /\ CleanStore(named_objects)
    /\ Len(named_objects) = 4
    /\ HasPath(named_objects, PathAB)
    /\ HasPath(named_objects, PathADash)

(* C5: after a successful create_node(path), path not the root, the new     *)
(* node is in the children map of its parent, so find_node(path) returns a  *)
(* node with the id the store assigned.                                     *)
CreateNodeAttaches ==
    (lastCall.op = "create_node" /\ lastCall.result = "Ok"
        /\ ~ is_root(lastCall.path)) =>
        LET n == find_node(document, pathNodes, lastCall.path)
        IN  /\ ~ IsNone(n)
            /\ n.base.id = lastCall.node.base.id

(* C6: create_node for a path whose parent path has no node in the document *)
(* tree fails with "parent not found" and inserts no row.                   *)
CreateNodeParentNotFound ==
    [][\A input \in CreateInputs :
          (CreateNode(input, FALSE) /\ ParentAbsent(input)) =>
              /\ lastCall'.result = "Err"
              /\ lastCall'.err.kind = "ParentNotFound"
              /\ named_objects' = named_objects]_vars

(* C7: create_node for a well-formed path that already has a row (a second  *)
(* call with the same path, the store working) fails with a path            *)
(* collision error, distinct from a generic store error, and the store      *)
(* keeps exactly one row for that path.                                     *)
CreateNodeCollision ==
    [][\A input \in CreateInputs :
          (/\ WellFormed(input)
           /\ CreateNode(input, FALSE)
           /\ HasPath(named_objects, StoredPath(input))) =>
              /\ lastCall'.result = "Err"
              /\ lastCall'.err.kind = "PathCollisionError"
              /\ Cardinality({i \in 1..Len(named_objects') :
                                named_objects'[i].path = StoredPath(input)}) = 1]_vars

(* C8: open on a store with a row whose parent has no node in the tree      *)
(* returns a "missing parent" error to its caller; it does not abort.       *)
OpenMissingParentError ==
    (lastCall.op = "open" /\ OrphanRow(named_objects)) =>
        /\ lastCall.result = "Err"
        /\ pc = "running"

(* C9: when the update of a node's row fails during write, root or          *)
(* descendant, write stops there and returns the error; it never returns    *)
(* ok after a failed update.                                                *)
WriteStopsAtFirstFailure ==
    lastCall.op = "write" =>
        \A k \in 1..Len(lastCall.log) :
            ~ lastCall.log[k].ok =>
                /\ k = Len(lastCall.log)
                /\ lastCall.result = "Err"

(* C10: schema setup is idempotent.  Once the root row is there, the setup  *)
(* step of a later open inserts no second root row.                         *)
SchemaSetupIdempotent ==
    [][\A scan \in ScanOrders :
          (Open(scan) /\ named_objects # <<>>) =>
              named_objects' = named_objects]_vars

-----------------------------------------------------------------------------
(* Helpers of the path claims *)

\* The thread is at the return of parse(input).
ParseReturned(t) == AtReturn(t) /\ threads[t].input # NoInput

\* No '/' in the string.
SlashFree(str) == \A i \in 1..Len(str) : str[i] # Slash

\* A non-empty string with no trailing and no double slash: no empty segment
\* after a '/'.
Canonical(path) ==
    /\ path # <<>>
    /\ path[Len(path)] # Slash
    /\ \A i \in 1..(Len(path) - 1) : ~ (path[i] = Slash /\ path[i + 1] = Slash)

\* The segments s1..sn of "/s1/.../sn", read from the left.
RECURSIVE SegmentsOf(_)
SegmentsOf(path) ==
    IF path = <<>> THEN <<>>
    ELSE LET rest == Tail(path)
             stop == IF \E i \in 1..Len(rest) : rest[i] = Slash
                     THEN (CHOOSE i \in 1..Len(rest) :
                              rest[i] = Slash /\ \A j \in 1..(i - 1) : rest[j] # Slash) - 1
                     ELSE Len(rest)
         IN  <<SubSeq(rest, 1, stop)>> \o SegmentsOf(SubSeq(rest, stop + 1, Len(rest)))

\* h.join(s1)...join(sn)
RECURSIVE JoinChain(_, _, _)
JoinChain(I, h, segs) ==
    IF segs = <<>> THEN h
    ELSE LET r == join(I, h, Head(segs))
         IN  JoinChain(r.I, r.node, Tail(segs))

\* The number of joins from the root to h.
RECURSIVE Depth(_, _)
Depth(heap, h) == IF h = ROOT_PATH_NODE THEN 0 ELSE 1 + Depth(heap, heap[h].parent)

\* self is other or one of its ancestors.
RECURSIVE OnChain(_, _, _)
OnChain(heap, self, other) ==
    \/ other = self
    \/ other # ROOT_PATH_NODE /\ OnChain(heap, self, heap[other].parent)

\* h is reached from the root by joins with non-empty slash-free segments.
RECURSIVE GoodHandle(_, _)
GoodHandle(heap, h) ==
    \/ h = ROOT_PATH_NODE
    \/ /\ heap[h].name # EmptyStr
       /\ SlashFree(heap[h].name)
       /\ GoodHandle(heap, heap[h].parent)

-----------------------------------------------------------------------------
(* C11, as claimed: round trip.  For every string P without empty segments  *)
(* and in canonical form (no trailing slash, no double slash),              *)
(* parse(P).to_string() is P.                                               *)
RoundTripCanonical ==
    \A t \in Threads :
        (ParseReturned(t) /\ Canonical(threads[t].input)) =>
            to_string(pathNodes, threads[t].cur) = threads[t].input

(* C11, amended: round trip.  For every string P = "/s1/.../sn", n >= 1,    *)
(* with non-empty slash-free segments, parse(P).to_string() is P.           *)
RoundTrip ==
    \A t \in Threads :
        (ParseReturned(t) /\ WellFormed(threads[t].input)) =>
            to_string(pathNodes, threads[t].cur) = threads[t].input

\* parse("/a/b") has returned.
RoundTripWitness ==
    \E t \in Threads :
        /\ ParseReturned(t)
        /\ threads[t].input = PathAB
        /\ to_string(pathNodes, threads[t].cur) = PathAB

(* C12: join/parse agreement.  For non-empty slash-free segments s1..sn,    *)
(* n >= 1, parse("/s1/.../sn") returns the very node of                     *)
(* root.join(s1)...join(sn).                                                *)
JoinParseAgreement ==
    \A t \in Threads :
        (ParseReturned(t) /\ WellFormed(threads[t].input)) =>
            threads[t].cur =
                JoinChain(ThisInterner, root, SegmentsOf(threads[t].input))

\* parse("/a/b") has returned the node of root.join("a").join("b").
JoinParseAgreementWitness ==
    \E t \in Threads :
        /\ ParseReturned(t)
        /\ threads[t].input = PathAB
        /\ PathKey(root, SegA) \in DOMAIN PATH_NODE_TABLE
        /\ threads[t].cur # root
        /\ pathNodes[threads[t].cur] =
               [parent |-> PATH_NODE_TABLE[PathKey(root, SegA)], name |-> SegB]

(* C13: prefix law.  P.is_prefix(Q) terminates: its loop compares Q, then   *)
(* Q's parent, and so on up to the root, so it runs at most once per node   *)
(* of Q's parent chain; it returns true when P is on that chain and false   *)
(* when it is not.                                                          *)
PrefixLaw ==
    \A t \in Threads :
        /\ threads[t].pc = "is_prefix" =>
              threads[t].iters <= Depth(pathNodes, threads[t].cur) + 1
        /\ threads[t].pc = "returned" =>
              threads[t].ret = OnChain(pathNodes, threads[t].self, threads[t].cur)

(* C14: parse of a non-empty string s without '/' returns root.join(s);     *)
(* parse of the empty string returns the root.                              *)
ParseWithoutSlash ==
    \A t \in Threads :
        (ParseReturned(t) /\ SlashFree(threads[t].input)) =>
            threads[t].cur =
                IF threads[t].input = EmptyStr THEN root
                ELSE join(ThisInterner, root, threads[t].input).node

(* C18, as claimed: reverse round trip.  For every handle h reached from    *)
(* the root by zero or more joins with non-empty slash-free segments, the   *)
(* root included, parse(h.to_string()) is h; distinct such handles have     *)
(* distinct string forms.                                                   *)
ReverseRoundTripWithRoot ==
    /\ \A t \in Threads : \A h \in 0..Len(pathNodes) :
          (/\ ParseReturned(t)
           /\ GoodHandle(pathNodes, h)
           /\ threads[t].input = to_string(pathNodes, h)) => threads[t].cur = h
    /\ \A h \in 0..Len(pathNodes), g \in 0..Len(pathNodes) :
          (/\ GoodHandle(pathNodes, h)
           /\ GoodHandle(pathNodes, g)
           /\ to_string(pathNodes, h) = to_string(pathNodes, g)) => h = g

(* C18, amended: for every handle h reached from the root by one or more    *)
(* joins with non-empty slash-free segments, parse(h.to_string()) is h;     *)
(* such handles and the root have pairwise distinct string forms.           *)
ReverseRoundTrip ==
    /\ \A t \in Threads : \A h \in 1..Len(pathNodes) :
          (/\ ParseReturned(t)
           /\ GoodHandle(pathNodes, h)
           /\ threads[t].input = to_string(pathNodes, h)) => threads[t].cur = h
    /\ \A h \in 0..Len(pathNodes), g \in 0..Len(pathNodes) :
          (/\ GoodHandle(pathNodes, h)
           /\ GoodHandle(pathNodes, g)
           /\ to_string(pathNodes, h) = to_string(pathNodes, g)) => h = g

\* parse of the string form of a second-level handle has returned, and a
\* node whose one segment is "a/b" has that string form too.
ReverseRoundTripWitness ==
    \E t \in Threads : \E h \in 1..Len(pathNodes), g \in 1..Len(pathNodes) :
        /\ ParseReturned(t)
        /\ GoodHandle(pathNodes, h)
        /\ pathNodes[h].parent # root
        /\ threads[t].input = to_string(pathNodes, h)
        /\ threads[t].cur = h
        /\ g # h
        /\ to_string(pathNodes, g) = to_string(pathNodes, h)

-----------------------------------------------------------------------------
(* Join and split; the parent chain *)

\* The thread has just run the entry operation of join(key[1], key[2]) and
\* holds the handle it returned in cur.
Joined(t) == threads[t].pc = "join" /\ threads[t].key # NoKey

\* C19: for every handle h and segment s, h.join(s).split_last() is (h, s),
\* h.join(s).parent() is h, h.join(s).name() is s and h.join(s).is_root() is
\* false; for the root, parent() and split_last() are None, is_root() is true
\* and name() is the empty token.
JoinSplitCoherence ==
    /\ \A t \in Threads :
          Joined(t) =>
            LET h == threads[t].key[1]
                s == threads[t].key[2]
                r == threads[t].cur
            IN  /\ split_last(pathNodes, r) = <<h, s>>
                /\ parent(pathNodes, r) = h
                /\ name(pathNodes, r) = s
                /\ ~is_root(r)
    /\ parent(pathNodes, root) = NoPath
    /\ split_last(pathNodes, root) = NoSplit
    /\ is_root(root)
    /\ name(pathNodes, root) = EmptyStr

\* A join on a handle other than the root has returned, and so has a join
\* with the empty segment.
JoinSplitCoherenceWitness ==
    /\ Joined(MainThread)
    /\ threads[MainThread].key[1] # root
    /\ \E i \in 1..Len(pathNodes) : pathNodes[i].name = EmptyStr

\* The k-th node up the parent chain of h; NoPath above the root.
RECURSIVE Up(_, _, _)
Up(heap, h, k) ==
    IF k = 0 THEN h
    ELSE LET p == Up(heap, h, k - 1)
         IN  IF p = NoPath \/ p = ROOT_PATH_NODE THEN NoPath ELSE heap[p].parent

\* C20: in every reachable state of the interner the parent chain of every
\* path node ends at the root within as many steps as there are nodes, no
\* node is its own ancestor, and a node's parent was allocated before it.
ParentChainAcyclic ==
    \A i \in 1..Len(pathNodes) :
        /\ \E k \in 1..Len(pathNodes) : Up(pathNodes, i, k) = ROOT_PATH_NODE
        /\ \A k \in 1..Len(pathNodes) : Up(pathNodes, i, k) # i
        /\ pathNodes[i].parent \in 0..(i - 1)

\* A chain of three nodes below the root is interned.
ParentChainAcyclicWitness ==
    /\ Len(pathNodes) = MaxPathNodes
    /\ \E i \in 1..Len(pathNodes) : Up(pathNodes, i, 3) = ROOT_PATH_NODE

-----------------------------------------------------------------------------
(* find_node *)

\* The segments of a path, from the root down.
RECURSIVE SegmentsTo(_, _)
SegmentsTo(heap, h) ==
    IF h = ROOT_PATH_NODE THEN <<>>
    ELSE Append(SegmentsTo(heap, heap[h].parent), heap[h].name)

\* The walk from a node down through the children maps along segs: the node
\* reached, or NoNode at the first segment its map does not hold.
RECURSIVE Descend(_, _)
Descend(node, segs) ==
    IF segs = <<>> THEN node
    ELSE IF Head(segs) \in DOMAIN node.children
         THEN Descend(node.children[Head(segs)], Tail(segs))
         ELSE NoNode

\* C15: find_node(path) returns nothing (a value, not an error) whenever a
\* segment along path, intermediate or final, is absent from the children
\* map it is looked up in; it returns the document root for the root path,
\* and otherwise the child for the last segment of the node found for the
\* parent path.
FindNodeContract ==
    lastCall.op = "find_node" =>
        LET path == lastCall.path
            segs == SegmentsTo(pathNodes, path)
            res == lastCall.result
        IN  /\ IsNone(Descend(document.root, segs)) => res = NoNode
            /\ res = Descend(document.root, segs)
            /\ is_root(path) => res = document.root
            /\ ~ is_root(path) =>
                  LET par == find_node(document, pathNodes, parent(pathNodes, path))
                  IN  IF IsNone(par) THEN res = NoNode
                      ELSE IF name(pathNodes, path) \in DOMAIN par.children
                           THEN res = par.children[name(pathNodes, path)]
                           ELSE res = NoNode

\* find_node has run on a path two segments deep whose first segment is not
\* among the root's children, and the document has children.
FindNodeContractWitness ==
    /\ lastCall.op = "find_node"
    /\ Len(SegmentsTo(pathNodes, lastCall.path)) = 2
    /\ SegmentsTo(pathNodes, lastCall.path)[1] \notin DOMAIN document.root.children
    /\ DOMAIN document.root.children # {}
    /\ lastCall.result = NoNode

-----------------------------------------------------------------------------
(* open: the order of the fold, and reopening *)

\* a is a proper prefix of b.
StrictPrefix(a, b) == Len(a) < Len(b) /\ SubSeq(b, 1, Len(a)) = a

\* What open is about to fold for a scan order: the sorted (string, node)
\* pairs and the heap after the row loop.
SortedNodes(scan) ==
    LET rows1 == setup_schema(named_objects)
        loaded == LoadRows(ThisInterner, rows1, db_select(rows1, scan))
    IN  [heap |-> loaded.I.heap, nodes |-> sort_by(loaded.nodes)]

\* In the sorted list every non-root node has a string its parent's string
\* is a proper prefix of, stands after the node of its parent path, and,
\* when the fold gets to it and its parent has a row, finds that row's node
\* at the parent path of the document so far.
ParentFirst(scan) ==
    LET sn == SortedNodes(scan)
        heap == sn.heap
        nodes == sn.nodes
    IN  \A i \in 1..Len(nodes) :
          LET path == nodes[i].node.base.path
              par == parent(heap, path)
              sofar == FoldNodes(heap, NewDocument, SubSeq(nodes, 1, i - 1))
          IN  ~ is_root(path) =>
                /\ StrictPrefix(to_string(heap, par), nodes[i].key)
                /\ \A j \in 1..Len(nodes) :
                      nodes[j].node.base.path = par =>
                        /\ j < i
                        /\ ~ sofar.panic =>
                              LET found == find_node(sofar.document, heap, par)
                              IN  /\ ~ IsNone(found)
                                  /\ found.base.id = nodes[j].node.base.id

\* C16: parent before child in open.  For every non-root path node the
\* parent's string form is a strict prefix of the node's, so after the sort
\* by string form every loaded non-root node is folded after the node for its
\* parent path and, when the parent's row exists, finds that parent already
\* in the tree.
OpenParentBeforeChild ==
    [][\A scan \in ScanOrders : Open(scan) => ParentFirst(scan)]_vars

\* C17: every store reachable from the empty store by open, create_node and
\* write calls, successful or failed, can be opened again: open returns a
\* Document and does not abort on an unresolved parent.
OpenNeverAborts ==
    lastCall.op = "open" =>
        /\ lastCall.result = "Ok"
        /\ ~ IsNone(document)
        /\ pc # "aborted"

====
